---- MODULE Spec2Model ----
(***************************************************************************)
(* Fixed-capacity binary heaps of data-structures/heap: class MaxHeap      *)
(* (max-heap.cpp) and class MinHeap (min-heap.cpp).  Each object holds a   *)
(* vector<int> heap of heapSize + 1 slots (slot 0 is a dummy), the         *)
(* capacity heapSize and the element count realSize.  The member           *)
(* functions are modelled as operators over (heap, realSize, heapSize);    *)
(* the actions apply them to one object whose class is fixed by `kind`.    *)
(***************************************************************************)
EXTENDS Integers, Sequences, FiniteSets, Bags, TLC

\* <climits>: the limits of the 32-bit int the heaps store.
INT_MAX == 2147483647
INT_MIN == -INT_MAX - 1

\* Largest capacity passed to a constructor.
MaxCap == 6

\* Accepted add calls counted by the history counter nAdd.
MaxAdds == MaxCap + 1

\* The elements handed to add: both limits of int and two values between.
Values == {INT_MIN, 0, 1, INT_MAX}

Kinds == {"max", "min"}

VARIABLES
    kind,      \* which class the object is: "max" (MaxHeap) or "min" (MinHeap)
    heap,      \* vector<int> heap, a function on 0..heapSize
    heapSize,  \* int heapSize: the capacity
    realSize,  \* int realSize: the number of stored elements
    lastOp,    \* the member function called last: "none", "add", "peek", "pop"
    arg,       \* its argument: <<x>> for add(x), <<>> otherwise
    path,      \* the branch it took: "ok", "full" (add rejected), "empty"
    ret,       \* what it returned: <<>> for void, <<v>> for an int v
    cout,      \* the line it printed to the console ("" when none)
    nAdd,      \* history: add calls made while realSize < heapSize
    nPop,      \* history: pop calls made while realSize >= 1
    phase,     \* "free": any interleaving; "fill"/"drain": n adds, then n pops
    inputs,    \* fill/drain: the values added, in call order
    outputs,   \* fill/drain: the values popped, in call order
    bag,       \* history: the abstract bounded priority queue, a bag of values
    mirror     \* lock-step run: a MaxHeap given the negated calls (a record)

vars == <<kind, heap, heapSize, realSize, lastOp, arg, path, ret, cout,
          nAdd, nPop, phase, inputs, outputs, bag, mirror>>

----------------------------------------------------------------------------
(* Mutant: the swap copies one way only, losing heap[i]. *)
Swap_copy(h, i, j) == [h EXCEPT ![i] = h[j]]

(* std::swap(heap[i], heap[j]) *)
Swap(h, i, j) == [h EXCEPT ![i] = h[j], ![j] = h[i]]

(* oss.str(): the pieces inserted into the ostringstream, run together. *)
RECURSIVE Str(_)
Str(pieces) ==
    IF pieces = <<>> THEN "" ELSE Head(pieces) \o Str(Tail(pieces))

(* What a loop carries: the vector, the indices read or written so far,    *)
(* the number of swaps made and the swaps themselves, <<index, other>>.    *)
Touch(r, idx) == [r EXCEPT !.acc = r.acc \cup idx]

Swapped(r, i, j) ==
    [heap |-> Swap(r.heap, i, j), acc |-> r.acc \cup {i, j}, swaps |-> r.swaps + 1,
     log |-> Append(r.log, <<i, j>>)]

----------------------------------------------------------------------------
(* class MaxHeap *)

\* MaxHeap(int capacity): resize value-initialises the slots, heap[0] = 0.
MaxHeap_ctor(capacity) == [i \in 0..capacity |-> 0]

\* Mutant: the rejected branch returns without reverting realSize++.
MaxHeap_addReject_noRevert(h, n1) ==
    [heap |-> h, realSize |-> n1, acc |-> {}, swaps |-> 0, log |-> <<>>,
     path |-> "full", cout |-> "Added too many Elements!"]

\* add, the rejected branch: the message, then realSize-- reverts the increment.
MaxHeap_addReject(h, n1) ==
    [heap |-> h, realSize |-> n1 - 1, acc |-> {}, swaps |-> 0, log |-> <<>>,
     path |-> "full", cout |-> "Added too many Elements!"]

\* Mutant: after a swap the parent is taken to be the slot before the index
\* (index - 1 for index / 2).
RECURSIVE MaxHeap_bubbleUp_prevSlot(_, _, _)
MaxHeap_bubbleUp_prevSlot(r, index, parent) ==
    IF index > 1
    THEN IF r.heap[index] > r.heap[parent]
         THEN MaxHeap_bubbleUp_prevSlot(Swapped(r, index, parent), parent, parent - 1)
         ELSE Touch(r, {index, parent})
    ELSE r

\* Mutant: the loop runs on at the root (index > 0 for index > 1).
RECURSIVE MaxHeap_bubbleUp_toDummy(_, _, _)
MaxHeap_bubbleUp_toDummy(r, index, parent) ==
    IF index > 0
    THEN IF r.heap[index] > r.heap[parent]
         THEN MaxHeap_bubbleUp_toDummy(Swapped(r, index, parent), parent, parent \div 2)
         ELSE Touch(r, {index, parent})
    ELSE r

\* add, the while loop: swap with the parent while strictly greater.
RECURSIVE MaxHeap_bubbleUp(_, _, _)
MaxHeap_bubbleUp(r, index, parent) ==
    IF index > 1
    THEN IF r.heap[index] > r.heap[parent]
         THEN MaxHeap_bubbleUp(Swapped(r, index, parent), parent, parent \div 2)
         ELSE Touch(r, {index, parent})
    ELSE r

MaxHeap_add(h, n, cap, element) ==
    LET n1 == n + 1 IN
    IF n1 > cap
    THEN MaxHeap_addReject(h, n1)
    ELSE LET r == MaxHeap_bubbleUp(
                    [heap |-> [h EXCEPT ![n1] = element], acc |-> {n1}, swaps |-> 0, log |-> <<>>],
                    n1, n1 \div 2)
         IN [heap |-> r.heap, realSize |-> n1, acc |-> r.acc, swaps |-> r.swaps, log |-> r.log,
             path |-> "ok", cout |-> ""]

\* Mutant: peek removes the root as pop does, without restoring the order.
MaxHeap_peek_removes(h, n) ==
    IF n < 1
    THEN [heap |-> h, realSize |-> n, ret |-> INT_MAX, acc |-> {},
          path |-> "empty", cout |-> "Don't have any element"]
    ELSE [heap |-> [h EXCEPT ![1] = h[n]], realSize |-> n - 1, ret |-> h[1],
          acc |-> {1, n}, path |-> "ok", cout |-> ""]

\* peek() const: the object is handed back as it was.
MaxHeap_peek(h, n) ==
    IF n < 1
    THEN [heap |-> h, realSize |-> n, ret |-> INT_MAX, acc |-> {},
          path |-> "empty", cout |-> "Don't have any element"]
    ELSE [heap |-> h, realSize |-> n, ret |-> h[1], acc |-> {1},
          path |-> "ok", cout |-> ""]

\* Mutant: the empty branch returns the sentinel of peek, INT_MAX.
MaxHeap_popEmpty_intMax(h, n) ==
    [heap |-> h, realSize |-> n, ret |-> INT_MAX, acc |-> {}, swaps |-> 0, log |-> <<>>,
     path |-> "empty", cout |-> "Don't have any element"]

\* Mutant: the empty branch decrements realSize like the other branch.
MaxHeap_popEmpty_decrement(h, n) ==
    [heap |-> h, realSize |-> n - 1, ret |-> INT_MIN, acc |-> {}, swaps |-> 0, log |-> <<>>,
     path |-> "empty", cout |-> "Don't have any element"]

\* pop, the empty branch: the message and the sentinel, nothing else.
MaxHeap_popEmpty(h, n) ==
    [heap |-> h, realSize |-> n, ret |-> INT_MIN, acc |-> {}, swaps |-> 0, log |-> <<>>,
     path |-> "empty", cout |-> "Don't have any element"]

\* Mutant: the left child is taken whatever the right child holds.
MaxHeap_largerChild_left(h, left, right) == left

\* pop, both children present: the child the node is swapped with.
MaxHeap_largerChild(h, left, right) ==
    IF h[left] > h[right] THEN left ELSE right

\* pop, the while loop over the nodes that have at least one child.
RECURSIVE MaxHeap_bubbleDown(_, _, _)
MaxHeap_bubbleDown(r, index, n) ==
    IF index <= n \div 2
    THEN LET left  == index * 2
             right == left + 1
         IN IF right > n
            THEN IF r.heap[index] < r.heap[left]
                 THEN MaxHeap_bubbleDown(Swapped(r, index, left), left, n)
                 ELSE Touch(r, {index, left})
            ELSE IF r.heap[index] < r.heap[left] \/ r.heap[index] < r.heap[right]
                 THEN LET c == MaxHeap_largerChild(r.heap, left, right)
                      IN MaxHeap_bubbleDown(
                             Swapped(Touch(r, {left, right}), index, c), c, n)
                 ELSE Touch(r, {index, left, right})
    ELSE r

MaxHeap_pop(h, n) ==
    IF n < 1
    THEN MaxHeap_popEmpty(h, n)
    ELSE LET removeElement == h[1]
             r == MaxHeap_bubbleDown(
                    [heap |-> [h EXCEPT ![1] = h[n]], acc |-> {1, n}, swaps |-> 0, log |-> <<>>],
                    1, n - 1)
         IN [heap |-> r.heap, realSize |-> n - 1, ret |-> removeElement,
             acc |-> r.acc, swaps |-> r.swaps, log |-> r.log, path |-> "ok", cout |-> ""]

MaxHeap_size(n) == n

\* Mutant: the loop starts at the dummy slot (i = 0 for i = 1).
RECURSIVE MaxHeap_toStringLoop_fromZero(_, _, _)
MaxHeap_toStringLoop_fromZero(h, i, n) ==
    LET i0 == IF i = 1 THEN 0 ELSE i
    IN IF i0 <= n
       THEN <<ToString(h[i0])>> \o (IF i0 < n THEN <<",">> ELSE <<>>)
                \o MaxHeap_toStringLoop_fromZero(h, IF i0 = 0 THEN 2 ELSE i0 + 1, n)
       ELSE <<>>

\* toString, the for loop: the pieces inserted for the slots i..n, the
\* decimal form of heap[i] and a ',' after every slot but the last.
RECURSIVE MaxHeap_toStringLoop(_, _, _)
MaxHeap_toStringLoop(h, i, n) ==
    IF i <= n
    THEN <<ToString(h[i])>> \o (IF i < n THEN <<",">> ELSE <<>>)
             \o MaxHeap_toStringLoop(h, i + 1, n)
    ELSE <<>>

\* toString, the pieces inserted into oss when realSize # 0.
MaxHeap_toStringPieces(h, n) ==
    <<"[">> \o MaxHeap_toStringLoop(h, 1, n) \o <<"]">>

MaxHeap_toString(h, n) ==
    IF n = 0 THEN "No element!" ELSE Str(MaxHeap_toStringPieces(h, n))

----------------------------------------------------------------------------
(* class MinHeap *)

MinHeap_ctor(capacity) == [i \in 0..capacity |-> 0]

\* Mutant: the rejected branch returns without reverting realSize++.
MinHeap_addReject_noRevert(h, n1) ==
    [heap |-> h, realSize |-> n1, acc |-> {}, swaps |-> 0, log |-> <<>>,
     path |-> "full", cout |-> "Added too many Elements!"]

MinHeap_addReject(h, n1) ==
    [heap |-> h, realSize |-> n1 - 1, acc |-> {}, swaps |-> 0, log |-> <<>>,
     path |-> "full", cout |-> "Added too many Elements!"]

\* Mutant: the loop stops below the root (index > 2 for index > 1).
RECURSIVE MinHeap_bubbleUp_short(_, _, _)
MinHeap_bubbleUp_short(r, index, parent) ==
    IF index > 2
    THEN IF r.heap[index] < r.heap[parent]
         THEN MinHeap_bubbleUp_short(Swapped(r, index, parent), parent, parent \div 2)
         ELSE Touch(r, {index, parent})
    ELSE r

\* Mutant: the loop runs on at the root (index > 0 for index > 1).
RECURSIVE MinHeap_bubbleUp_toDummy(_, _, _)
MinHeap_bubbleUp_toDummy(r, index, parent) ==
    IF index > 0
    THEN IF r.heap[index] < r.heap[parent]
         THEN MinHeap_bubbleUp_toDummy(Swapped(r, index, parent), parent, parent \div 2)
         ELSE Touch(r, {index, parent})
    ELSE r

RECURSIVE MinHeap_bubbleUp(_, _, _)
MinHeap_bubbleUp(r, index, parent) ==
    IF index > 1
    THEN IF r.heap[index] < r.heap[parent]
         THEN MinHeap_bubbleUp(Swapped(r, index, parent), parent, parent \div 2)
         ELSE Touch(r, {index, parent})
    ELSE r

MinHeap_add(h, n, cap, element) ==
    LET n1 == n + 1 IN
    IF n1 > cap
    THEN MinHeap_addReject(h, n1)
    ELSE LET r == MinHeap_bubbleUp(
                    [heap |-> [h EXCEPT ![n1] = element], acc |-> {n1}, swaps |-> 0, log |-> <<>>],
                    n1, n1 \div 2)
         IN [heap |-> r.heap, realSize |-> n1, acc |-> r.acc, swaps |-> r.swaps, log |-> r.log,
             path |-> "ok", cout |-> ""]

\* peek() const: the object is handed back as it was.
MinHeap_peek(h, n) ==
    IF n < 1
    THEN [heap |-> h, realSize |-> n, ret |-> INT_MAX, acc |-> {},
          path |-> "empty", cout |-> "Don't have any element"]
    ELSE [heap |-> h, realSize |-> n, ret |-> h[1], acc |-> {1},
          path |-> "ok", cout |-> ""]

\* Mutant: the empty branch decrements realSize like the other branch.
MinHeap_popEmpty_decrement(h, n) ==
    [heap |-> h, realSize |-> n - 1, ret |-> INT_MAX, acc |-> {}, swaps |-> 0, log |-> <<>>,
     path |-> "empty", cout |-> "Don't have any element"]

MinHeap_popEmpty(h, n) ==
    [heap |-> h, realSize |-> n, ret |-> INT_MAX, acc |-> {}, swaps |-> 0, log |-> <<>>,
     path |-> "empty", cout |-> "Don't have any element"]

\* Mutant: the comparison of the two children is inverted.
MinHeap_smallerChild_inverted(h, left, right) ==
    IF h[left] > h[right] THEN left ELSE right

\* Mutant: equal children send the node left (<= for <).
MinHeap_smallerChild_tieLeft(h, left, right) ==
    IF h[left] <= h[right] THEN left ELSE right

MinHeap_smallerChild(h, left, right) ==
    IF h[left] < h[right] THEN left ELSE right

\* Mutant: with both children present only the left one is compared with
\* the node (the || heap[index] > heap[right] is missing).
RECURSIVE MinHeap_bubbleDown_leftTest(_, _, _)
MinHeap_bubbleDown_leftTest(r, index, n) ==
    IF index <= n \div 2
    THEN LET left  == index * 2
             right == left + 1
         IN IF right > n
            THEN IF r.heap[index] > r.heap[left]
                 THEN MinHeap_bubbleDown_leftTest(Swapped(r, index, left), left, n)
                 ELSE Touch(r, {index, left})
            ELSE IF r.heap[index] > r.heap[left]
                 THEN LET c == IF r.heap[left] < r.heap[right] THEN left ELSE right
                      IN MinHeap_bubbleDown_leftTest(
                             Swapped(Touch(r, {left, right}), index, c), c, n)
                 ELSE Touch(r, {index, left})
    ELSE r

RECURSIVE MinHeap_bubbleDown(_, _, _)
MinHeap_bubbleDown(r, index, n) ==
    IF index <= n \div 2
    THEN LET left  == index * 2
             right == left + 1
         IN IF right > n
            THEN IF r.heap[index] > r.heap[left]
                 THEN MinHeap_bubbleDown(Swapped(r, index, left), left, n)
                 ELSE Touch(r, {index, left})
            ELSE IF r.heap[index] > r.heap[left] \/ r.heap[index] > r.heap[right]
                 THEN LET c == MinHeap_smallerChild(r.heap, left, right)
                      IN MinHeap_bubbleDown(
                             Swapped(Touch(r, {left, right}), index, c), c, n)
                 ELSE Touch(r, {index, left, right})
    ELSE r

MinHeap_pop(h, n) ==
    IF n < 1
    THEN MinHeap_popEmpty(h, n)
    ELSE LET removeElement == h[1]
             r == MinHeap_bubbleDown(
                    [heap |-> [h EXCEPT ![1] = h[n]], acc |-> {1, n}, swaps |-> 0, log |-> <<>>],
                    1, n - 1)
         IN [heap |-> r.heap, realSize |-> n - 1, ret |-> removeElement,
             acc |-> r.acc, swaps |-> r.swaps, log |-> r.log, path |-> "ok", cout |-> ""]

MinHeap_size(n) == n

\* toString, the for loop: the pieces inserted for the slots i..n, the
\* decimal form of heap[i] and a ',' after every slot but the last.
RECURSIVE MinHeap_toStringLoop(_, _, _)
MinHeap_toStringLoop(h, i, n) ==
    IF i <= n
    THEN <<ToString(h[i])>> \o (IF i < n THEN <<",">> ELSE <<>>)
             \o MinHeap_toStringLoop(h, i + 1, n)
    ELSE <<>>

\* toString, the pieces inserted into oss when realSize # 0.
MinHeap_toStringPieces(h, n) ==
    <<"[">> \o MinHeap_toStringLoop(h, 1, n) \o <<"]">>

MinHeap_toString(h, n) ==
    IF n = 0 THEN "No element!" ELSE Str(MinHeap_toStringPieces(h, n))

----------------------------------------------------------------------------
(* The call made on the object, by its class. *)
HeapCtor(k, capacity) ==
    IF k = "max" THEN MaxHeap_ctor(capacity) ELSE MinHeap_ctor(capacity)

HeapAdd(k, h, n, cap, element) ==
    IF k = "max" THEN MaxHeap_add(h, n, cap, element)
                 ELSE MinHeap_add(h, n, cap, element)

HeapPeek(k, h, n) ==
    IF k = "max" THEN MaxHeap_peek(h, n) ELSE MinHeap_peek(h, n)

HeapPop(k, h, n) ==
    IF k = "max" THEN MaxHeap_pop(h, n) ELSE MinHeap_pop(h, n)

HeapSize(k, n) ==
    IF k = "max" THEN MaxHeap_size(n) ELSE MinHeap_size(n)

\* The bubble-down loop of pop on its own, from `index` in a heap of n.
HeapBubbleDown(k, r, index, n) ==
    IF k = "max" THEN MaxHeap_bubbleDown(r, index, n)
                 ELSE MinHeap_bubbleDown(r, index, n)

HeapToStringPieces(k, h, n) ==
    IF k = "max" THEN MaxHeap_toStringPieces(h, n) ELSE MinHeap_toStringPieces(h, n)

HeapToString(k, h, n) ==
    IF k = "max" THEN MaxHeap_toString(h, n) ELSE MinHeap_toString(h, n)

----------------------------------------------------------------------------
(* The abstract bounded priority queue the heap is compared with: a bag   *)
(* of at most `cap` values; an add below the bound inserts one copy, a     *)
(* pop of a non-empty bag removes one copy of its extreme.                 *)

\* order(a, b): a is not worse than b (>= in a max-heap, <= in a min-heap).
Order(k, a, b) == IF k = "max" THEN a >= b ELSE a <= b

\* The maximum (max-heap) or minimum (min-heap) of a non-empty set.
Extreme(k, S) == CHOOSE m \in S : \A v \in S : Order(k, m, v)

BagAdd(b, cap, x) ==
    IF BagCardinality(b) < cap THEN b (+) SetToBag({x}) ELSE b

BagPop(k, b) ==
    IF b = EmptyBag THEN b ELSE b (-) SetToBag({Extreme(k, BagToSet(b))})

(* State after construction, for either class and any capacity 0..MaxCap. *)
Constructed ==
    /\ kind \in Kinds
    /\ heapSize \in 0..MaxCap
    /\ heap = HeapCtor(kind, heapSize)
    /\ realSize = 0
    /\ lastOp = "none"
    /\ arg = <<>>
    /\ path = "none"
    /\ ret = <<>>
    /\ cout = ""
    /\ nAdd = 0
    /\ nPop = 0
    /\ bag = EmptyBag
    /\ inputs = <<>>
    /\ outputs = <<>>

\* No second object is run beside the heap.
NoMirror ==
    [heap |-> <<>>, realSize |-> 0, path |-> "none", ret |-> <<>>, exact |-> TRUE]

Init == Constructed /\ phase = "free" /\ mirror = NoMirror

(* The calls themselves: what they do to the object and what the caller sees. *)
AddCall(x) ==
    LET r == HeapAdd(kind, heap, realSize, heapSize, x) IN
    /\ (realSize < heapSize) => nAdd < MaxAdds
    /\ heap' = r.heap
    /\ realSize' = r.realSize
    /\ lastOp' = "add"
    /\ arg' = <<x>>
    /\ path' = r.path
    /\ ret' = <<>>
    /\ cout' = r.cout
    /\ nAdd' = IF realSize < heapSize THEN nAdd + 1 ELSE nAdd
    /\ bag' = BagAdd(bag, heapSize, x)
    /\ UNCHANGED <<kind, heapSize, nPop>>

PeekCall ==
    LET r == HeapPeek(kind, heap, realSize) IN
    /\ heap' = r.heap
    /\ realSize' = r.realSize
    /\ lastOp' = "peek"
    /\ arg' = <<>>
    /\ path' = r.path
    /\ ret' = <<r.ret>>
    /\ cout' = r.cout
    /\ UNCHANGED <<kind, heapSize, nAdd, nPop, bag>>

PopCall ==
    LET r == HeapPop(kind, heap, realSize) IN
    /\ heap' = r.heap
    /\ realSize' = r.realSize
    /\ lastOp' = "pop"
    /\ arg' = <<>>
    /\ path' = r.path
    /\ ret' = <<r.ret>>
    /\ cout' = r.cout
    /\ nPop' = IF realSize >= 1 THEN nPop + 1 ELSE nPop
    /\ bag' = BagPop(kind, bag)
    /\ UNCHANGED <<kind, heapSize, nAdd>>

(* Any interleaving of the three calls. *)
Add(x) == phase = "free" /\ AddCall(x) /\ UNCHANGED <<phase, inputs, outputs, mirror>>

Peek == phase = "free" /\ PeekCall /\ UNCHANGED <<phase, inputs, outputs, mirror>>

Pop == phase = "free" /\ PopCall /\ UNCHANGED <<phase, inputs, outputs, mirror>>

Next ==
    \/ \E x \in Values : Add(x)
    \/ Peek
    \/ Pop

Spec == Init /\ [][Next]_vars

----------------------------------------------------------------------------
(* n <= capacity values added to a new heap, then n pops. *)
SortInit == Constructed /\ phase = "fill" /\ mirror = NoMirror

SortAdd(x) ==
    /\ phase = "fill"
    /\ realSize < heapSize
    /\ AddCall(x)
    /\ inputs' = Append(inputs, x)
    /\ UNCHANGED <<phase, outputs, mirror>>

SortPop ==
    /\ phase \in {"fill", "drain"}
    /\ Len(outputs) < Len(inputs)
    /\ PopCall
    /\ phase' = "drain"
    /\ outputs' = Append(outputs, ret'[1])
    /\ UNCHANGED <<inputs, mirror>>

SortNext ==
    \/ \E x \in Values : SortAdd(x)
    \/ SortPop

SpecSort == SortInit /\ [][SortNext]_vars

----------------------------------------------------------------------------
(* A MinHeap and a MaxHeap of the same capacity run in lock-step: every     *)
(* call made on the MinHeap with a value v is made on the MaxHeap with -v.  *)
(* mirror.exact records that every v so far had an int as its negation; a   *)
(* run is followed up to the first add whose value has none, since no later *)
(* state of it is a state of two heaps holding negated values.              *)

\* The values handed to the MinHeap.
DualValues == {INT_MIN, -INT_MAX, -1, 0, INT_MAX}

\* What the caller's -v can be as an int. -INT_MIN is not an int: the
\* negation overflows, and a build may wrap it to INT_MIN or saturate it.
NegatedInt(v) == IF v = INT_MIN THEN {INT_MIN, INT_MAX} ELSE {-v}

DualInit ==
    /\ Constructed
    /\ kind = "min"
    /\ phase = "dual"
    /\ mirror = [heap |-> MaxHeap_ctor(heapSize), realSize |-> 0,
                 path |-> "none", ret |-> <<>>, exact |-> TRUE]

DualAdd(v, w) ==
    /\ phase = "dual"
    /\ mirror.exact
    /\ w \in NegatedInt(v)
    /\ AddCall(v)
    /\ LET m == MaxHeap_add(mirror.heap, mirror.realSize, heapSize, w)
       IN mirror' = [heap |-> m.heap, realSize |-> m.realSize, path |-> m.path,
                     ret |-> <<>>, exact |-> mirror.exact /\ v # INT_MIN]
    /\ UNCHANGED <<phase, inputs, outputs>>

DualPeek ==
    /\ phase = "dual"
    /\ mirror.exact
    /\ PeekCall
    /\ LET m == MaxHeap_peek(mirror.heap, mirror.realSize)
       IN mirror' = [heap |-> m.heap, realSize |-> m.realSize, path |-> m.path,
                     ret |-> <<m.ret>>, exact |-> mirror.exact]
    /\ UNCHANGED <<phase, inputs, outputs>>

DualPop ==
    /\ phase = "dual"
    /\ mirror.exact
    /\ PopCall
    /\ LET m == MaxHeap_pop(mirror.heap, mirror.realSize)
       IN mirror' = [heap |-> m.heap, realSize |-> m.realSize, path |-> m.path,
                     ret |-> <<m.ret>>, exact |-> mirror.exact]
    /\ UNCHANGED <<phase, inputs, outputs>>

DualNext ==
    \/ \E v \in DualValues : \E w \in NegatedInt(v) : DualAdd(v, w)
    \/ DualPeek
    \/ DualPop

SpecDual == DualInit /\ [][DualNext]_vars

----------------------------------------------------------------------------
(* Vocabulary of the properties. *)

\* The values stored in heap[1..realSize].
LiveValues == {heap[i] : i \in 1..realSize}

\* How often v occurs in the sequence s.
Count(s, v) == Cardinality({i \in 1..Len(s) : s[i] = v})

----------------------------------------------------------------------------
\* C1: heap property. Between calls, every stored element at index
\* 2..realSize is not more extreme than its parent at index i/2: the parent
\* is >= it in a MaxHeap and <= it in a MinHeap.
C1_HeapProperty ==
    \A i \in 2..realSize : Order(kind, heap[i \div 2], heap[i])

\* A pop has moved the old last element (still in slot realSize + 1) from
\* the root down past the second level of a heap of at least four elements.
C1_Witness ==
    /\ lastOp = "pop" /\ path = "ok"
    /\ realSize >= 4
    /\ \A i \in 1..3 : heap[i] # heap[realSize + 1]

\* C2: extraction order. Once n values added to a new heap have been
\* followed by n pops, the popped sequence is the added values sorted
\* (descending for MaxHeap, ascending for MinHeap): it is ordered and holds
\* each value as often as the input does; and the heap is empty.
C2_ExtractionOrder ==
    (Len(outputs) = Len(inputs)) =>
        /\ realSize = 0
        /\ \A i \in 1..(Len(outputs) - 1) : Order(kind, outputs[i], outputs[i + 1])
        /\ \A v \in Values : Count(outputs, v) = Count(inputs, v)

\* Five or more values with a duplicate among them, not added in sorted
\* order, have all been popped again.
C2_Witness ==
    /\ phase = "drain"
    /\ Len(inputs) >= 5
    /\ Len(outputs) = Len(inputs)
    /\ outputs # inputs
    /\ Cardinality({inputs[i] : i \in 1..Len(inputs)}) = 3

\* C3: the root is the extreme. Whenever realSize >= 1, peek() returns the
\* maximum (MaxHeap) or minimum (MinHeap) of heap[1..realSize]; and after an
\* accepted add(x), peek() is the more extreme of x and the peek() before
\* the add, or x when the heap was empty.
C3_PeekIsExtreme ==
    realSize >= 1 =>
        LET r == HeapPeek(kind, heap, realSize)
        IN r.path = "ok" /\ r.ret = Extreme(kind, LiveValues)

C3_AddMovesPeek ==
    \A x \in Values :
        (Add(x) /\ path' = "ok") =>
            HeapPeek(kind, heap', realSize').ret =
                IF realSize = 0
                THEN x
                ELSE Extreme(kind, {x, HeapPeek(kind, heap, realSize).ret})

C3_RootIsExtreme == []C3_PeekIsExtreme /\ [][C3_AddMovesPeek]_vars

\* An accepted add has carried a new extreme from the fourth slot or beyond
\* up to the root of a heap holding three different values.
C3_Witness ==
    /\ lastOp = "add" /\ path = "ok"
    /\ realSize >= 4
    /\ heap[1] = arg[1]
    /\ heap[2] # arg[1]
    /\ Cardinality(LiveValues) >= 3

\* C4: size accounting. Between calls, size() is the number of add calls
\* made while realSize < heapSize minus the number of pop calls made while
\* realSize >= 1; a rejected add and a pop on an empty heap count for none.
C4_SizeAccounting == HeapSize(kind, realSize) = nAdd - nPop

\* An add has just been rejected on a heap that had taken more adds than
\* its capacity, with pops in between.
C4_Witness ==
    /\ lastOp = "add" /\ path = "full"
    /\ nPop >= 2
    /\ nAdd > heapSize
    /\ heapSize >= 2

\* C5: capacity boundary. An add(x) called when realSize = heapSize hands
\* the caller a CapacityExceeded outcome (something other than the void of
\* an accepted add) and leaves realSize, every slot, size() and peek() as
\* they were.
C5_RejectedAddUnchanged ==
    \A x \in Values :
        (Add(x) /\ realSize = heapSize) =>
            /\ realSize' = realSize
            /\ heap' = heap
            /\ HeapSize(kind, realSize') = HeapSize(kind, realSize)
            /\ HeapPeek(kind, heap', realSize').ret = HeapPeek(kind, heap, realSize).ret

C5_RejectedAddReported ==
    \A x \in Values :
        (Add(x) /\ realSize = heapSize) => ret' # <<>>

C5_CapacityBoundary ==
    [][C5_RejectedAddUnchanged /\ C5_RejectedAddReported]_vars

\* The part of C5 that the code keeps: a rejected add changes nothing.
C5_StateKept == [][C5_RejectedAddUnchanged]_vars

\* C6: boundedness. Between calls 0 <= realSize <= heapSize and the vector
\* has the slots 0..heapSize; heapSize never changes.
C6_Within ==
    /\ 0 <= realSize
    /\ realSize <= heapSize
    /\ DOMAIN heap = 0..heapSize

C6_Bounded == []C6_Within /\ [][heapSize' = heapSize]_vars

\* An add has just been rejected on a full heap of capacity three or more.
C6_Witness ==
    /\ lastOp = "add" /\ path = "full"
    /\ heapSize >= 3
    /\ realSize = heapSize

\* C7: empty boundary. What peek() or pop() hands the caller on an empty
\* heap is never what the same function returns from a non-empty one.
C7_EmptyOutcome(op) ==
    IF op = "peek"
    THEN <<HeapPeek(kind, HeapCtor(kind, heapSize), 0).ret>>
    ELSE <<HeapPop(kind, HeapCtor(kind, heapSize), 0).ret>>

C7_EmptyDistinguishable ==
    (lastOp \in {"peek", "pop"} /\ path = "ok") => ret # C7_EmptyOutcome(lastOp)

\* C8: state unchanged on empty. A pop() or peek() called when realSize = 0
\* leaves realSize at 0 and every slot as it was, and an add(x) that follows
\* it on a heap of capacity >= 1 is accepted and makes peek() return x.
C8_EmptyCallKeepsState ==
    ((Pop \/ Peek) /\ realSize = 0) => (realSize' = 0 /\ heap' = heap)

C8_AddAfterEmptyCall ==
    \A x \in Values :
        (/\ lastOp \in {"pop", "peek"} /\ path = "empty"
         /\ heapSize >= 1
         /\ Add(x)) =>
            /\ path' = "ok"
            /\ HeapSize(kind, realSize') = 1
            /\ HeapPeek(kind, heap', realSize').ret = x

C8_EmptyLeavesState == [][C8_EmptyCallKeepsState /\ C8_AddAfterEmptyCall]_vars

\* A pop has just taken the empty branch on a heap that was filled and
\* drained before, so that its slots still hold earlier values.
C8_Witness ==
    /\ lastOp = "pop" /\ path = "empty"
    /\ realSize = 0
    /\ nPop >= 2
    /\ heapSize >= 2
    /\ heap[1] # 0 /\ heap[2] # 0

\* C9: idempotent peek. peek() changes neither realSize nor any slot, on an
\* empty heap or not, so size() is the same before and after it and a second
\* peek() right after the first (peek applied to the state the first one
\* left) returns the value the first one returned.
C9_PeekChangesNothing ==
    Peek =>
        /\ realSize' = realSize
        /\ heap' = heap
        /\ HeapSize(kind, realSize') = HeapSize(kind, realSize)
        /\ <<HeapPeek(kind, heap', realSize').ret>> = ret'

C9_IdempotentPeek == [][C9_PeekChangesNothing]_vars

\* A peek has just returned the root of a heap of three or more elements
\* that is not the sentinel of the empty branch.
C9_Witness ==
    /\ lastOp = "peek" /\ path = "ok"
    /\ realSize >= 3
    /\ ret # <<INT_MAX>>

\* C10: zero capacity. A heap constructed with capacity 0 stays empty: its
\* vector has the dummy slot 0 only, realSize is 0, every add is rejected,
\* every pop and peek takes the empty branch, and no call reads or writes a
\* slot.
C10_ZeroCapacity ==
    heapSize = 0 =>
        /\ realSize = 0
        /\ DOMAIN heap = {0}
        /\ (lastOp = "add" => path = "full")
        /\ (lastOp \in {"peek", "pop"} => path = "empty")
        /\ \A x \in Values :
               LET r == HeapAdd(kind, heap, realSize, heapSize, x)
               IN r.path = "full" /\ r.acc = {} /\ r.realSize = 0
        /\ LET r == HeapPeek(kind, heap, realSize)
           IN r.path = "empty" /\ r.acc = {}
        /\ LET r == HeapPop(kind, heap, realSize)
           IN r.path = "empty" /\ r.acc = {} /\ r.realSize = 0

\* A heap of capacity 0 has rejected an add.
C10_Witness ==
    /\ heapSize = 0
    /\ lastOp = "add" /\ path = "full"
    /\ arg # <<0>>

\* C11: max/min duality. A MinHeap given values v and a MaxHeap of the same
\* capacity given the values -v, call for call, stay in lock-step: realSize
\* is equal, heap[i] of one is the negation of heap[i] of the other for
\* 1 <= i <= realSize, and every peek and pop takes the empty branch in both
\* or returns negated values.
\* b is the negation of a (INT_MIN has none among the ints).
C11_IsNegation(a, b) == a # INT_MIN /\ b # INT_MIN /\ b = -a

C11_LockStep ==
    /\ mirror.realSize = realSize
    /\ \A i \in 1..realSize : C11_IsNegation(heap[i], mirror.heap[i])
    /\ mirror.path = path
    /\ (lastOp \in {"peek", "pop"} /\ path = "ok") =>
           C11_IsNegation(ret[1], mirror.ret[1])

C12_LiveBag ==
    [v \in LiveValues |-> Cardinality({i \in 1..realSize : heap[i] = v})]

C12_RefinesBag ==
    /\ C12_LiveBag = bag
    /\ realSize >= 1 =>
           LET r == HeapPop(kind, heap, realSize)
           IN r.path = "ok" /\ r.ret = Extreme(kind, BagToSet(bag))
    /\ realSize = 0 => bag = EmptyBag

\* A pop has sifted the old last element two levels down in a heap that
\* holds a value twice and at least three different values.
C12_Witness ==
    /\ lastOp = "pop" /\ path = "ok"
    /\ realSize >= 4
    /\ \A i \in 1..3 : heap[i] # heap[realSize + 1]
    /\ Cardinality(LiveValues) >= 3
    /\ \E v \in LiveValues : CopiesIn(v, bag) >= 2

----------------------------------------------------------------------------
(* Reading a loop's swaps back, step by step. *)

\* a is strictly more extreme than b.
Strictly(k, a, b) == IF k = "max" THEN a > b ELSE a < b

\* The vector h after the first k swaps of log.
RECURSIVE AfterSwaps(_, _, _)
AfterSwaps(h, log, k) ==
    IF k = 0
    THEN h
    ELSE LET g == AfterSwaps(h, log, k - 1)
             i == log[k][1]
             j == log[k][2]
         IN [g EXCEPT ![i] = g[j], ![j] = g[i]]

\* Where the element being moved is when step k begins, started at `start`.
NodeAt(log, start, k) == IF k = 1 THEN start ELSE log[k - 1][2]

\* C13: bubble-down child choice. For the pop of any reachable non-empty
\* heap, at every node the loop visits: with both children present it swaps
\* iff a child is strictly more extreme than the node, and then with a child
\* that is not less extreme than its sibling; with a left child only it swaps
\* with it iff it is strictly more extreme; otherwise (and at a leaf) it
\* stops.
C13_StepOk(h0, n, log, k) ==
    LET g     == AfterSwaps(h0, log, k - 1)
        i     == NodeAt(log, 1, k)
        left  == 2 * i
        right == 2 * i + 1
        did   == k <= Len(log)
        want  == IF right <= n
                 THEN Strictly(kind, g[left], g[i]) \/ Strictly(kind, g[right], g[i])
                 ELSE IF left <= n THEN Strictly(kind, g[left], g[i]) ELSE FALSE
    IN /\ did <=> want
       /\ did => /\ log[k][1] = i
                 /\ IF right <= n
                    THEN \/ log[k][2] = left /\ Order(kind, g[left], g[right])
                         \/ log[k][2] = right /\ Order(kind, g[right], g[left])
                    ELSE log[k][2] = left

C13_ChildChoice ==
    realSize >= 1 =>
        LET r  == HeapPop(kind, heap, realSize)
            h0 == [heap EXCEPT ![1] = heap[realSize]]
        IN /\ r.swaps = Len(r.log)
           /\ \A k \in 1..(Len(r.log) + 1) : C13_StepOk(h0, realSize - 1, r.log, k)
           /\ r.heap = AfterSwaps(h0, r.log, Len(r.log))

\* A pop has taken the old last element (still in slot realSize + 1) past
\* two nodes with both children, to one of two different children of node 2.
C13_Witness ==
    /\ lastOp = "pop" /\ path = "ok"
    /\ realSize >= 5
    /\ \A i \in 1..3 : heap[i] # heap[realSize + 1]
    /\ heap[4] # heap[5]
    /\ heap[realSize + 1] \in {heap[4], heap[5]}

\* floor(log2(n)) for n >= 1.
RECURSIVE Log2Floor(_)
Log2Floor(n) == IF n <= 1 THEN 0 ELSE 1 + Log2Floor(n \div 2)

\* C14: termination and swap bound. The add of any value to any reachable
\* heap that is not full ends after at most floor(log2(n)) swaps, n being
\* realSize after the increment, each swap moving the index to a strictly
\* smaller one (>= 1); the pop of any reachable non-empty heap ends after at
\* most floor(log2(n)) swaps, n being realSize after the decrement (none when
\* n = 0), each swap moving the index to a strictly larger one (<= n).
C14_AddBound(x) ==
    LET r == HeapAdd(kind, heap, realSize, heapSize, x)
        n == realSize + 1
    IN /\ r.swaps = Len(r.log)
       /\ r.swaps <= Log2Floor(n)
       /\ \A k \in 1..Len(r.log) :
              /\ r.log[k][1] = NodeAt(r.log, n, k)
              /\ r.log[k][2] < r.log[k][1]
              /\ r.log[k][2] >= 1

C14_PopBound ==
    LET r == HeapPop(kind, heap, realSize)
        n == realSize - 1
    IN /\ r.swaps = Len(r.log)
       /\ r.swaps <= (IF n = 0 THEN 0 ELSE Log2Floor(n))
       /\ \A k \in 1..Len(r.log) :
              /\ r.log[k][1] = NodeAt(r.log, 1, k)
              /\ r.log[k][2] > r.log[k][1]
              /\ r.log[k][2] <= n

C14_SwapBound ==
    /\ realSize < heapSize => \A x \in Values : C14_AddBound(x)
    /\ realSize >= 1 => C14_PopBound

\* An add has made floor(log2(n)) = 2 swaps or more: its value went from
\* slot realSize >= 4 to the root of a MaxHeap, past a different value.
C14_Witness ==
    /\ kind = "max"
    /\ lastOp = "add" /\ path = "ok"
    /\ realSize >= 4
    /\ heap[1] = arg[1]
    /\ heap[realSize \div 2] # arg[1]
    /\ heap[realSize] # arg[1]

\* C15: display. In every reachable state with realSize >= 1, toString()
\* is '[', the decimal forms of heap[1], ..., heap[realSize] in index order
\* with a ',' between neighbours, and ']': 2 * realSize + 1 pieces, so
\* neither the dummy slot nor a slot beyond realSize is shown; with
\* realSize = 0 it is "No element!", which no non-empty heap displays.
C15_Decimal(t) == CHOOSE v \in Values \cup {0} : ToString(v) = t

C15_Display ==
    LET out == HeapToString(kind, heap, realSize)
        p   == HeapToStringPieces(kind, heap, realSize)
    IN /\ realSize = 0 => out = "No element!"
       /\ realSize >= 1 =>
              /\ out # "No element!"
              /\ out = Str(p)
              /\ Len(p) = 2 * realSize + 1
              /\ p[1] = "[" /\ p[Len(p)] = "]"
              /\ \A i \in 1..realSize : C15_Decimal(p[2 * i]) = heap[i]
              /\ \A i \in 1..(realSize - 1) : p[2 * i + 1] = ","

\* After pops and adds, a heap of two or more elements with a value left in
\* slot realSize + 1 that it no longer holds is displayed without that value.
C15_Witness ==
    /\ nPop >= 1
    /\ realSize >= 2
    /\ realSize < heapSize
    /\ heap[realSize + 1] \notin LiveValues \cup {0}
    /\ \A i \in 1..Len(HeapToStringPieces(kind, heap, realSize)) :
           HeapToStringPieces(kind, heap, realSize)[i] # ToString(heap[realSize + 1])

\* C16: documented empty-heap return values. A peek or pop called with
\* realSize = 0 takes the empty branch and returns what its doc comment
\* says: INT_MAX from MaxHeap::peek, INT_MIN from MaxHeap::pop, INT_MAX from
\* MinHeap::peek and from MinHeap::pop.
C16_Documented(k, op) ==
    IF k = "max" /\ op = "pop" THEN INT_MIN ELSE INT_MAX

C16_EmptyReturns ==
    /\ (lastOp \in {"peek", "pop"} /\ path = "empty") =>
           ret = <<C16_Documented(kind, lastOp)>>
    /\ realSize = 0 =>
           /\ HeapPeek(kind, heap, realSize).path = "empty"
           /\ HeapPop(kind, heap, realSize).path = "empty"
    /\ (lastOp \in {"peek", "pop"} /\ path = "empty") => realSize = 0

\* A MaxHeap that held elements before has been popped when empty.
C16_Witness ==
    /\ kind = "max"
    /\ lastOp = "pop" /\ path = "empty"
    /\ nPop >= 1
    /\ ret = <<INT_MIN>>

\* C17: index safety. For every capacity 0..MaxCap and every reachable
\* state, each slot that add (of any value), peek or pop reads or writes has
\* an index in 1..heapSize, so never the dummy slot 0; and the bubble-down
\* loop of pop touches no index greater than realSize (as decremented).
C17_InStorage(acc) == acc \subseteq 1..heapSize

C17_IndexSafety ==
    /\ \A x \in Values :
           LET r == HeapAdd(kind, heap, realSize, heapSize, x)
           IN /\ C17_InStorage(r.acc)
              /\ r.path = "ok" => (realSize + 1) \in r.acc
    /\ LET r == HeapPeek(kind, heap, realSize)
       IN /\ C17_InStorage(r.acc)
          /\ r.path = "ok" => 1 \in r.acc
    /\ LET r == HeapPop(kind, heap, realSize)
       IN /\ C17_InStorage(r.acc)
          /\ r.path = "ok" => {1, realSize} \subseteq r.acc
    /\ realSize >= 1 =>
           LET r == HeapBubbleDown(kind,
                        [heap |-> [heap EXCEPT ![1] = heap[realSize]], acc |-> {},
                         swaps |-> 0, log |-> <<>>],
                        1, realSize - 1)
           IN /\ r.acc \subseteq 1..(realSize - 1)
              /\ realSize >= 3 => {1, 2} \subseteq r.acc

\* An add has filled the last slot of a heap of capacity four or more and
\* carried its value up to the root.
C17_Witness ==
    /\ lastOp = "add" /\ path = "ok"
    /\ heapSize >= 4
    /\ realSize = heapSize
    /\ heap[1] = arg[1]
    /\ heap[2] # arg[1] /\ heap[3] # arg[1]

\* Node a is node d or one of its ancestors (d, d/2, d/4, ..., 1).
RECURSIVE OnPathToRoot(_, _)
OnPathToRoot(a, d) ==
    IF d < 1 THEN FALSE
    ELSE IF a = d THEN TRUE
    ELSE OnPathToRoot(a, d \div 2)

\* The slots of the vector in which g differs from h.
ChangedSlots(h, g) == {i \in DOMAIN h : g[i] # h[i]}

\* C18: path-only mutation. For every reachable state: an accepted add of
\* any value changes only slots on the path from the new leaf realSize + 1
\* up to the root, and makes no swap when the value equals its parent's; a
\* pop changes only slots of heap[1..realSize - 1] that lie on one path down
\* from the root (of any two changed slots one is on the other's path to the
\* root). Every other slot of the vector keeps its value.
C18_AddOnPath(x) ==
    LET r    == HeapAdd(kind, heap, realSize, heapSize, x)
        leaf == realSize + 1
    IN /\ \A i \in ChangedSlots(heap, r.heap) : OnPathToRoot(i, leaf)
       /\ (leaf > 1 /\ x = heap[leaf \div 2]) =>
              /\ r.swaps = 0
              /\ r.heap = [heap EXCEPT ![leaf] = x]

C18_PopOnPath ==
    LET r == HeapPop(kind, heap, realSize)
        c == ChangedSlots(heap, r.heap)
    IN /\ c \subseteq 1..(realSize - 1)
       /\ \A i, j \in c : OnPathToRoot(i, j) \/ OnPathToRoot(j, i)

C18_PathOnly ==
    /\ realSize < heapSize => \A x \in Values : C18_AddOnPath(x)
    /\ realSize >= 1 => C18_PopOnPath

\* An add has put a value equal to its parent's, and different from the
\* root's, into slot realSize >= 4 and left it there.
C18_Witness ==
    /\ lastOp = "add" /\ path = "ok"
    /\ realSize >= 4
    /\ heap[realSize] = arg[1]
    /\ heap[realSize \div 2] = arg[1]
    /\ heap[1] # arg[1]

====
